---- MODULE Spec2Model ----
(***************************************************************************)
(* Model of the conversation orchestration core of SellMe_PRT:             *)
(* src/src/realtime/chatHandler.ts (handleChatConnection) together with    *)
(* the classifier client src/src/services/saleAnalyzer.ts.                 *)
(*                                                                         *)
(* One client connection is modelled.  Every upstream event starts an      *)
(* async handler invocation; an invocation runs synchronously up to its    *)
(* next `await`, so one action of the model is "the awaited operation      *)
(* takes effect (or throws) and the code that follows runs up to the next  *)
(* await".  Several invocations may be suspended at the same time; they    *)
(* have no identity of their own, so they are kept as a bag.               *)
(*                                                                         *)
(* Spec follows a connection from the creation of the session record:     *)
(* the end of the initialisation, the configuration handshake, the         *)
(* greeting, the conversation, the gate and the disconnect.  FairSpec is   *)
(* Spec under the scheduling of the runtime.  RelaySpec follows the        *)
(* relaying between the two sockets, with the frames of the client and     *)
(* the content of the error events.  TurnsSpec follows longer              *)
(* conversations of a connected session.  WindowSpec follows the           *)
(* construction of the classifier transcript alone, on sessions of up to   *)
(* MaxRows messages.  ConfigSpec, VerdictSpec, OverlapSpec, EndSpec and    *)
(* PairSpec follow a connected session together with, in turn, the         *)
(* configuration route, every answer of the classifier service, speech     *)
(* that starts during a handler, the end-session route, and a second       *)
(* connection.                                                             *)
(***************************************************************************)
EXTENDS Integers, Sequences, FiniteSets, Bags, TLC

\* ------------------------------------------------------------------ bounds
MaxMessages == 3      \* Message rows with role 'user' per session
MaxHandlers == 1      \* handler invocations suspended at the same time
MaxBuf == 2           \* fragments held in bufferedAssistantTranscript
MaxRows == 17         \* Message rows of a session when the transcript window is built
MaxTurns == 5         \* USER utterances of a session that is not disconnected
MaxOverlap == 2       \* handler invocations suspended at the same time in such a session
MaxConfigTurns == 3   \* USER utterances of a session while the configuration is being changed
MaxConfigOverlap == 1 \* handler invocations suspended at the same time in such a session

\* ------------------------------------------------------- program constants
NULL == 0                       \* endedAt not set (DateTime? column)
Date == 1                       \* the value of new Date(): any non-null instant
ExitThreshold == 60             \* chatHandler.ts:460
DefaultThreshold == 80          \* chatHandler.ts:460
UserSellsThreshold == 80        \* chatHandler.ts:336
PositioningCount == 3           \* chatHandler.ts:410
ClosingCount == 5               \* chatHandler.ts:417
HistoryTake == 15               \* chatHandler.ts:317, 438
SellerWindow == 10              \* saleAnalyzer.ts:85
CustomerWindow == 12            \* saleAnalyzer.ts:209

triggerPhrase == "sell me a pen"
exitPhrases == {"bye", "goodbye", "i'm done", "end session", "not interested",
                "no thanks", "i don't want", "forget it", "never mind", "i'll pass"}
buyPhrases == {"i'll take it", "i'll buy", "sold", "deal", "yes", "sign me up",
               "i want it", "i'm in"}
giveUpPhrases == {"bye", "goodbye", "i give up", "i'm done", "forget it",
                  "never mind", "i quit", "end session"}

\* A transcript is modelled by the set of phrases that occur in it.
Utterances == { {}, {"sell me a pen"}, {"goodbye"}, {"yes"} }
\* The fragments of one assistant response, in the order the engine produces them.
Deltas == <<"A", "B", "C", "D">>
Fragments == {Deltas[k] : k \in DOMAIN Deltas}

\* String.prototype.includes on the lower-cased transcript: a phrase occurs in
\* the transcript when it occurs in one of the phrases the transcript is made of.
IsSubstring(p, q) == p = q \/ (p = "bye" /\ q = "goodbye")
Includes(transcript, p) == \E q \in transcript : IsSubstring(p, q)

SaleOutcomes == {"SALE_CONFIRMED", "SALE_DENIED", "UNDECIDED"}
Confidences == {59, 60, 70, 80}
NoAnalysis == [outcome |-> "none", confidence |-> 0]
\* catch branch of analyzeWithAI / detectUserSaleOutcome
AnalysisError == [outcome |-> "UNDECIDED", confidence |-> 0]
\* What openai.chat.completions.create does: it rejects, or it resolves with a content
\* that JSON.parse rejects, or with a JSON object (outcome "" / confidence 0: field absent).
Rejected == [status |-> "rejected", outcome |-> "", confidence |-> 0]
Unparseable == [status |-> "unparseable", outcome |-> "", confidence |-> 0]
Responses == [status : {"json"}, outcome : {"SALE_CONFIRMED", "SALE_DENIED"}, confidence : Confidences]
               \cup {[status |-> "json", outcome |-> "UNDECIDED", confidence |-> 80],
                     [status |-> "json", outcome |-> "", confidence |-> 0],
                     Rejected, Unparseable}

\* analyzeWithAI / detectUserSaleOutcome after the call: try { parse; result.x || default } catch
analyzeWithAI_FailureIsDenial(response) ==
  IF response.status # "json"
  THEN [outcome |-> "SALE_DENIED", confidence |-> 100]
  ELSE [outcome |-> IF response.outcome = "" THEN "UNDECIDED" ELSE response.outcome,
        confidence |-> response.confidence]
analyzeWithAI(response) ==
  IF response.status # "json"
  THEN AnalysisError
  ELSE [outcome |-> IF response.outcome = "" THEN "UNDECIDED" ELSE response.outcome,
        confidence |-> response.confidence]

Terminal == {"sale_made", "no_sale", "abandoned"}

VARIABLES
  salesMode,                    \* 'ai_sells' | 'user_sells', read once from config
  difficulty,                   \* the difficulty of the customer, read once from config
  appConfig,                    \* the AppConfig row: salesMode and difficulty as configured now
  currentPhase,                 \* handler-local phase
  isWaitingForUserTranscript,
  bufferedAssistantTranscript,
  session,                      \* the SalesSession row of the connection
  peerRow,                      \* the SalesSession row of another connection
  peer,                         \* the closure variables of the handler of that connection
  messages,                     \* the Message rows of the session: the number of rows with role 'user'
  clientOpen,                   \* clientWs.readyState === OPEN
  upstream,                     \* openaiWs: null while "initializing" and once initialisation "failed", then
                                \* "connecting", "open", "closing" (close() called) or "closed"
  sessionReady,                 \* the greeting was requested
  engine,                       \* the upstream session as its events told so far: "new", "created", "configured"
  greetings,                    \* greeting requests (response.create) sent upstream
  invocations,                  \* the suspended handler invocations: position and locals of each
  closePc,                      \* position of the clientWs 'close' handler
  commits,                      \* successful outcome writes by the gate
  notified,                     \* sale_made / sale_denied events delivered to the client
  sent,                         \* the events the client received in the last step, in order
  relayed,                      \* the events the client-message listener sent upstream in the last step
  conversation                  \* the Message rows by position, and the last transcript window built

handshake == <<sessionReady, engine, greetings>>
settings == <<salesMode, difficulty, appConfig, peer>>
salesSessions == <<session, peerRow>>
connection == <<handshake, settings, currentPhase, isWaitingForUserTranscript, bufferedAssistantTranscript,
                salesSessions, messages, clientOpen, upstream, invocations, closePc, commits, notified, sent, relayed>>
vars == <<connection, conversation>>

\* ------------------------------------------------------------ the store
\* prisma.salesSession.update({ data }): the named columns are overwritten,
\* unconditionally, the others kept.
Update(row, data) == [f \in DOMAIN row |-> IF f \in DOMAIN data THEN data[f] ELSE row[f]]

NewSession == [outcome |-> "undetermined", saleConfirmed |-> FALSE,
               currentPhase |-> "greeting", endedAt |-> NULL]

\* the ids of the two SalesSession rows (dbSessionId of each connection)
dbSessionId == 1
peerSessionId == 2

\* prisma.salesSession.update({ where: { id }, data }): only the row of that id is written
salesSessionUpdate_Unkeyed(id, data) ==
  /\ session' = Update(session, data)
  /\ peerRow' = Update(peerRow, data)
salesSessionUpdate(id, data) ==
  /\ session' = IF id = dbSessionId THEN Update(session, data) ELSE session
  /\ peerRow' = IF id = peerSessionId THEN Update(peerRow, data) ELSE peerRow

\* the closure variables of handleChatConnection that the conversation changes
NewPeer == [currentPhase |-> "greeting", isWaitingForUserTranscript |-> FALSE,
            bufferedAssistantTranscript |-> <<>>, sessionReady |-> FALSE]

PhaseData_NotWritten(p) == <<>>
PhaseData(p) == [currentPhase |-> p]

CommitData(outcome, t) == [outcome |-> outcome, saleConfirmed |-> (outcome = "sale_made"),
                           currentPhase |-> "completed", endedAt |-> t]

AbandonData_NoEndedAt(t) == [outcome |-> "abandoned"]
AbandonData(t) == [outcome |-> "abandoned", endedAt |-> t]

\* prisma.message.create adds one row; prisma.message.count({ where: { role: 'user' } })
NoMessages == 0
CreateMessage(msgs, role) == IF role = "user" THEN msgs + 1 ELSE msgs
UserMessageCount(msgs) == msgs

\* The rows of the session in createdAt order are 1, 2, ..: row k is the k-th message.
\* prisma.message.findMany({ orderBy: { createdAt: 'asc' }, take }) on a session of n rows
findMany(n, take) == [k \in 1..(IF n < take THEN n ELSE take) |-> k]

\* Array.prototype.slice(-w)
SliceLast(rows, w) == IF Len(rows) <= w THEN rows ELSE SubSeq(rows, Len(rows) - w + 1, Len(rows))

\* the transcript the classifier prompt is built from
TranscriptWindow(n, mode) ==
  SliceLast(findMany(n, HistoryTake), IF mode = "ai_sells" THEN SellerWindow ELSE CustomerWindow)

\* rows: the rows of the session; asked: the rows when the window was built
NoConversation == [rows |-> 0, asked |-> 0, window |-> <<>>]

\* ------------------------------------------------------------ the gate
isExitSignal(transcript) == \E p \in exitPhrases : Includes(transcript, p)
isBuySignal(transcript) == \E p \in buyPhrases : Includes(transcript, p)
isGivingUp_Never(transcript) == FALSE
isGivingUp(transcript) == \E p \in giveUpPhrases : Includes(transcript, p)

confidenceThreshold_Fixed(exit) == DefaultThreshold
confidenceThreshold(exit) == IF exit THEN ExitThreshold ELSE DefaultThreshold

userSellsConfident_Lowered(analysis) == analysis.confidence >= ExitThreshold
userSellsConfident(analysis) == analysis.confidence >= UserSellsThreshold

\* the store outcome a verdict is committed as; "none" when the branch writes nothing
GateOutcome_UndecidedIsNoSale(analysis) ==
  IF analysis.outcome = "SALE_CONFIRMED" THEN "sale_made" ELSE "no_sale"
GateOutcome(analysis) ==
  IF analysis.outcome = "SALE_CONFIRMED" THEN "sale_made"
  ELSE IF analysis.outcome = "SALE_DENIED" THEN "no_sale"
  ELSE "none"

\* the ai_sells condition under which detectSaleOutcome is called
RunsDetection(phase, transcript) ==
  phase = "closing" \/ isExitSignal(transcript) \/ isBuySignal(transcript) \/ phase # "greeting"

\* the condition under which detectUserSaleOutcome is called for an ASSISTANT utterance
DetectsOnAssistant_AnyMode(mode, phase) == phase # "greeting"
DetectsOnAssistant(mode, phase) == mode = "user_sells" /\ phase # "greeting"

\* ------------------------------------------------------ handler invocations
\* an invocation of the listener for a finalized transcript, suspended at logMessage
\* (pendingAtClose: its classifier call was pending at the disconnect and still is;
\* overtaken: a speech start was seen to arrive after the utterance it handles)
NewInvocation(kind, transcript) ==
  [pc |-> "log", kind |-> kind, transcript |-> transcript, isExitSignal |-> FALSE,
   pending |-> "none", difficulty |-> "none", response |-> "none", analysis |-> NoAnalysis,
   pendingAtClose |-> FALSE, overtaken |-> FALSE]

\* the phase argument of the logMessage call that an invocation starts with: the literal
\* 'greeting' in sendGreeting, the handler-local currentPhase in the two transcript cases
LoggedPhase(kind) == IF kind = "greeting" THEN "greeting" ELSE currentPhase

\* the locals still read once the signals are computed / after the decision
Detecting(i) ==
  [NewInvocation(i.kind, {}) EXCEPT !.pc = "history", !.isExitSignal = isExitSignal(i.transcript)]
Committing(i, outcome) ==
  [NewInvocation(i.kind, {}) EXCEPT !.pc = "commit", !.pending = outcome,
                                    !.pendingAtClose = i.pendingAtClose]

\* the counters of the observer stop at 2 ("more than one")
Count(n) == IF n < 2 THEN n + 1 ELSE n

Init ==
  /\ salesMode \in {"ai_sells", "user_sells"}
  /\ difficulty = "medium"
  /\ appConfig = [salesMode |-> salesMode, difficulty |-> difficulty]
  /\ currentPhase = "greeting"
  /\ isWaitingForUserTranscript = FALSE
  /\ bufferedAssistantTranscript = <<>>
  /\ session = NewSession
  /\ peerRow = NewSession
  /\ peer = NewPeer
  /\ messages = NoMessages
  /\ clientOpen = TRUE
  /\ upstream = "initializing"
  /\ sessionReady = FALSE
  /\ engine = "new"
  /\ greetings = 0
  /\ invocations = EmptyBag
  /\ closePc = "idle"
  /\ commits = 0
  /\ notified = 0
  /\ sent = <<>>
  /\ relayed = <<>>
  /\ conversation = NoConversation

Active == BagToSet(invocations)
HasFreeHandler == BagCardinality(invocations) < MaxHandlers
\* the number of invocations whose logMessage('user') is pending
Logging == BagCardinality([i \in {j \in Active : j.pc = "log" /\ j.kind = "user"} |-> invocations[i]])

\* No I/O callback runs while a promise continuation is queued: once the classifier
\* client has its result, the awaiting handler resumes in the same turn.
Quiescent == \A i \in Active : i.pc # "verdict"

\* the 'message' listener of openaiWs runs for frames that arrive before the socket is closed
Delivering == Quiescent /\ upstream \in {"open", "closing"}

\* the engine sends conversation events once the session exists, and transcriptions of the
\* human audio once the configuration that enables them (input_audio_transcription) is applied
Conversing == Delivering /\ engine # "new"
Transcribing == Delivering /\ engine = "configured"

TranscriptTypes == {"audio", "assistant_transcript", "user_transcript"}
Notifications == {"sale_made", "sale_denied"}

\* an event as the client receives it; text is "" where the model does not follow the content
Event(type, text) == [type |-> type, text |-> text]

\* clientWs.send of the events `evs`, in order (nothing reaches a client whose socket is not open)
Delivered(evs) ==
  /\ sent' = IF clientOpen THEN evs ELSE <<>>
  /\ notified' = IF clientOpen /\ \E k \in DOMAIN evs : evs[k].type \in Notifications
                 THEN Count(notified) ELSE notified
  /\ relayed' = <<>>

\* a step that sends nothing to the client
Silent == Delivered(<<>>)

\* a listener invocation starts and reaches its first await
Start(i) == invocations' = invocations (+) SetToBag({i})

\* the invocation returns, or its exception reaches the catch of the listener
Finish(i) == invocations' = invocations (-) SetToBag({i})

\* the invocation i reaches its next await as n
Suspend(i, n) == invocations' = (invocations (-) SetToBag({i})) (+) SetToBag({n})

\* an awaited store call rejects: the catch block only logs
Throw_StillNotifies(i) ==
  /\ Finish(i)
  /\ UNCHANGED <<conversation, handshake, settings, currentPhase, isWaitingForUserTranscript, bufferedAssistantTranscript,
                 salesSessions, messages, clientOpen, upstream, closePc, commits>>
  /\ Delivered(IF i.pc = "commit" THEN <<Event("sale_denied", "")>> ELSE <<>>)
Throw(i) ==
  /\ Finish(i)
  /\ UNCHANGED <<conversation, handshake, settings, currentPhase, isWaitingForUserTranscript, bufferedAssistantTranscript,
                 salesSessions, messages, clientOpen, upstream, closePc, commits>>
  /\ Silent

\* Array.prototype.join('') of the buffered fragments
RECURSIVE Join_Reversed(_)
Join_Reversed(buf) == IF buf = <<>> THEN "" ELSE Join_Reversed(Tail(buf)) \o Head(buf)
RECURSIVE Join(_)
Join(buf) == IF buf = <<>> THEN "" ELSE Head(buf) \o Join(Tail(buf))

\* end of the user-transcript handler: flush the buffer, close the window
\* (evs: events already sent earlier in the same synchronous run)
FlushAndFinish(i, evs) ==
  /\ Delivered(evs \o (IF Len(bufferedAssistantTranscript) > 0
                        THEN <<Event("assistant_transcript", Join(bufferedAssistantTranscript))>>
                        ELSE <<>>))
  /\ bufferedAssistantTranscript' = <<>>
  /\ isWaitingForUserTranscript' = FALSE
  /\ Finish(i)

\* ai_sells: signals, then either the history query for the classifier or the end of the handler
GateSegment(i, phase) ==
  IF RunsDetection(phase, i.transcript)
  THEN /\ Suspend(i, Detecting(i))
       /\ UNCHANGED <<isWaitingForUserTranscript, bufferedAssistantTranscript>> /\ Silent
  ELSE FlushAndFinish(i, <<>>)

\* phase progression on the message count, then the gate
ProgressSegment(i, count) ==
  IF currentPhase = "discovery" /\ count >= PositioningCount
  THEN /\ currentPhase' = "positioning"
       /\ Suspend(i, [i EXCEPT !.pc = "phase_update", !.pending = "positioning"])
       /\ UNCHANGED <<isWaitingForUserTranscript, bufferedAssistantTranscript>> /\ Silent
  ELSE IF currentPhase = "positioning" /\ count >= ClosingCount
  THEN /\ currentPhase' = "closing"
       /\ Suspend(i, [i EXCEPT !.pc = "phase_update", !.pending = "closing"])
       /\ UNCHANGED <<isWaitingForUserTranscript, bufferedAssistantTranscript>> /\ Silent
  ELSE /\ UNCHANGED currentPhase
       /\ GateSegment(i, currentPhase)

\* user_sells: the give-up short-circuit
GiveUpSegment(i) ==
  IF isGivingUp(i.transcript)
  THEN /\ Suspend(i, Committing(i, "no_sale"))
       /\ UNCHANGED <<isWaitingForUserTranscript, bufferedAssistantTranscript>> /\ Silent
  ELSE FlushAndFinish(i, <<>>)

\* ------------------------------------------------------------ initialisation
\* the listeners of clientWs are registered once the try block of handleChatConnection is left
Listening == upstream \notin {"initializing", "failed"}

\* sessionAnalytics.create resolves: the upstream socket is created, every listener registered
Initialized ==
  /\ upstream = "initializing"
  /\ upstream' = "connecting"
  /\ UNCHANGED <<conversation, handshake, settings, currentPhase, isWaitingForUserTranscript,
                 bufferedAssistantTranscript, salesSessions, messages, clientOpen, invocations, closePc, commits>>
  /\ Silent

\* sessionAnalytics.create rejects (or a JSON.parse of the product throws): the catch block
\* sends the error and returns before any listener of clientWs is registered
InitFails ==
  /\ upstream = "initializing"
  /\ upstream' = "failed"
  /\ UNCHANGED <<conversation, handshake, settings, currentPhase, isWaitingForUserTranscript,
                 bufferedAssistantTranscript, salesSessions, messages, clientOpen, invocations, closePc, commits>>
  /\ Delivered(<<Event("error", "Failed to initialize session")>>)

\* ------------------------------------------------------------ upstream events
\* openaiWs 'open': the session configuration (session.update) is sent
UpstreamOpen ==
  /\ upstream = "connecting"
  /\ upstream' = "open"
  /\ UNCHANGED <<conversation, handshake, settings, currentPhase, isWaitingForUserTranscript,
                 bufferedAssistantTranscript, salesSessions, messages, clientOpen, invocations, closePc, commits>>
  /\ Silent

\* sendGreeting, up to the await of logMessage
sendGreeting_Unguarded ==
  IF upstream = "open"
  THEN /\ HasFreeHandler
       /\ sessionReady' = TRUE
       /\ greetings' = Count(greetings)
       /\ Start(NewInvocation("greeting", {}))
  ELSE UNCHANGED <<sessionReady, greetings, invocations>>
sendGreeting ==
  IF upstream = "open" /\ ~ sessionReady
  THEN /\ HasFreeHandler
       /\ sessionReady' = TRUE
       /\ greetings' = Count(greetings)
       /\ Start(NewInvocation("greeting", {}))
  ELSE UNCHANGED <<sessionReady, greetings, invocations>>

\* case 'session.created': case 'session.updated': ready to the client, then the greeting
Acknowledged ==
  /\ Delivering
  /\ Delivered(<<Event("ready", "")>>)
  /\ sendGreeting
  /\ UNCHANGED <<conversation, settings, currentPhase, isWaitingForUserTranscript,
                 bufferedAssistantTranscript, salesSessions, messages, clientOpen, upstream, closePc, commits>>

\* the engine announces the session it created on connect
SessionCreated ==
  /\ Acknowledged
  /\ engine' = IF engine = "new" THEN "created" ELSE engine

\* the engine confirms that the session.update of the bridge is applied
SessionUpdated ==
  /\ Acknowledged
  /\ engine' = "configured"

\* case 'input_audio_buffer.speech_started'
SpeechStarted_KeepsBuffer ==
  /\ Conversing
  /\ isWaitingForUserTranscript' = TRUE
  /\ UNCHANGED <<conversation, handshake, settings, currentPhase, bufferedAssistantTranscript, salesSessions, messages,
                 clientOpen, upstream, invocations, closePc, commits>>
  /\ Silent
SpeechStarted ==
  /\ Conversing
  /\ isWaitingForUserTranscript' = TRUE
  /\ bufferedAssistantTranscript' = <<>>
  /\ UNCHANGED <<conversation, handshake, settings, currentPhase, salesSessions, messages, clientOpen, upstream, invocations,
                 closePc, commits>>
  /\ Silent

\* the same handler, seen by an observer that notes on the suspended handlers of USER
\* utterances that the speech start came after them
Overtaken(i) == IF i.kind = "user" THEN [i EXCEPT !.overtaken = TRUE] ELSE i
SpeechStartedDuring ==
  /\ Conversing
  /\ invocations # EmptyBag
  /\ isWaitingForUserTranscript' = TRUE
  /\ bufferedAssistantTranscript' = <<>>
  /\ invocations' = [n \in {Overtaken(i) : i \in Active} |->
                       invocations[CHOOSE i \in Active : Overtaken(i) = n]]
  /\ UNCHANGED <<conversation, handshake, settings, currentPhase, salesSessions, messages, clientOpen, upstream,
                 closePc, commits>>
  /\ Silent

\* case 'response.audio.delta'
AudioDelta ==
  /\ Conversing
  /\ clientOpen
  /\ Delivered(<<Event("audio", "")>>)
  /\ UNCHANGED <<conversation, handshake, settings, currentPhase, isWaitingForUserTranscript, bufferedAssistantTranscript,
                 salesSessions, messages, clientOpen, upstream, invocations, closePc, commits>>

\* the fragment the engine sends next: the model follows the fragments of the response
\* that overlaps the transcription window, and one fragment (the first) outside of it
Arriving == Deltas[IF isWaitingForUserTranscript THEN Len(bufferedAssistantTranscript) + 1 ELSE 1]

\* case 'response.audio_transcript.delta'
TranscriptDelta_AlwaysForward(f) ==
  /\ Conversing
  /\ f = Arriving
  /\ IF isWaitingForUserTranscript
     THEN /\ Len(bufferedAssistantTranscript) < MaxBuf
          /\ bufferedAssistantTranscript' = Append(bufferedAssistantTranscript, f)
     ELSE UNCHANGED bufferedAssistantTranscript
  /\ Delivered(<<Event("assistant_transcript", f)>>)
  /\ UNCHANGED <<conversation, handshake, settings, currentPhase, isWaitingForUserTranscript,
                 salesSessions, messages, clientOpen, upstream, invocations, closePc, commits>>
TranscriptDelta(f) ==
  /\ Conversing
  /\ f = Arriving
  /\ IF isWaitingForUserTranscript
     THEN /\ Len(bufferedAssistantTranscript) < MaxBuf
          /\ bufferedAssistantTranscript' = Append(bufferedAssistantTranscript, f)
          /\ Silent
     ELSE /\ Delivered(<<Event("assistant_transcript", f)>>)
          /\ UNCHANGED bufferedAssistantTranscript
  /\ UNCHANGED <<conversation, handshake, settings, currentPhase, isWaitingForUserTranscript,
                 salesSessions, messages, clientOpen, upstream, invocations, closePc, commits>>

\* event.error?.message of an upstream error event: absent ("") or the provider's text
ErrorTexts == {"", "quota exceeded"}

\* event.error?.message || 'Unknown error'
errorMessage(text) == IF text = "" THEN "Unknown error" ELSE text

\* case 'error': the upstream error event is passed on to the client
UpstreamError(text) ==
  /\ Delivering
  /\ clientOpen
  /\ Delivered(<<Event("error", errorMessage(text))>>)
  /\ UNCHANGED <<conversation, handshake, settings, currentPhase, isWaitingForUserTranscript, bufferedAssistantTranscript,
                 salesSessions, messages, clientOpen, upstream, invocations, closePc, commits>>

\* case 'conversation.item.input_audio_transcription.completed', up to the await of logMessage
Transcribed(u, maxMessages, maxHandlers) ==
  /\ Transcribing
  /\ messages + Logging < maxMessages
  /\ BagCardinality(invocations) < maxHandlers
  /\ IF clientOpen
     THEN /\ Delivered(<<Event("user_transcript", "")>>)
          /\ Start(NewInvocation("user", u))
          /\ UNCHANGED isWaitingForUserTranscript
     ELSE /\ isWaitingForUserTranscript' = FALSE
          /\ UNCHANGED invocations
          /\ Silent
  /\ UNCHANGED <<conversation, handshake, settings, currentPhase, bufferedAssistantTranscript, salesSessions, messages,
                 clientOpen, upstream, closePc, commits>>

UserTranscript(u) == Transcribed(u, MaxMessages, MaxHandlers)

\* case 'response.audio_transcript.done' with a non-empty transcript, up to the await of logMessage
Spoken(maxHandlers) ==
  /\ Conversing
  /\ BagCardinality(invocations) < maxHandlers
  /\ Start(NewInvocation("assistant", {}))
  /\ UNCHANGED <<conversation, handshake, settings, currentPhase, isWaitingForUserTranscript, bufferedAssistantTranscript,
                 salesSessions, messages, clientOpen, upstream, closePc, commits>>
  /\ Silent

AssistantTranscript == Spoken(MaxHandlers)

\* logMessage resolves (a failed create is swallowed inside logMessage); the handler goes on
LogDone(ok) ==
  \E i \in Active :
    /\ Quiescent
    /\ i.pc = "log"
    /\ messages' = IF ok THEN CreateMessage(messages, IF i.kind = "user" THEN "user" ELSE "assistant")
                         ELSE messages
    /\ IF i.kind = "greeting"
       THEN /\ Finish(i)
            /\ UNCHANGED <<currentPhase, isWaitingForUserTranscript, bufferedAssistantTranscript>>
            /\ Silent
       ELSE IF i.kind = "assistant"
       THEN /\ IF DetectsOnAssistant(salesMode, currentPhase)
               THEN Suspend(i, [i EXCEPT !.pc = "history"])
               ELSE Finish(i)
            /\ UNCHANGED <<currentPhase, isWaitingForUserTranscript, bufferedAssistantTranscript>>
            /\ Silent
       ELSE IF salesMode = "ai_sells"
       THEN /\ IF Includes(i.transcript, triggerPhrase)
               THEN /\ currentPhase' = "discovery"
                    /\ Suspend(i, [i EXCEPT !.pc = "trigger_update", !.pending = "discovery"])
               ELSE /\ UNCHANGED currentPhase
                    /\ Suspend(i, [i EXCEPT !.pc = "count"])
            /\ UNCHANGED <<isWaitingForUserTranscript, bufferedAssistantTranscript>> /\ Silent
       ELSE IF currentPhase = "greeting"
            THEN /\ currentPhase' = "pitching"
                 /\ Suspend(i, [i EXCEPT !.pc = "pitch_update", !.pending = "pitching"])
                 /\ UNCHANGED <<isWaitingForUserTranscript, bufferedAssistantTranscript>> /\ Silent
            ELSE /\ UNCHANGED currentPhase
                 /\ GiveUpSegment(i)
    /\ UNCHANGED <<conversation, handshake, settings, salesSessions, clientOpen, upstream, closePc, commits>>

\* the update { currentPhase: 'discovery' } resolves; message.count is called
TriggerUpdate ==
  \E i \in Active :
    /\ Quiescent
    /\ i.pc = "trigger_update"
    /\ salesSessionUpdate(dbSessionId, PhaseData(i.pending))
    /\ Suspend(i, [i EXCEPT !.pc = "count", !.pending = "none"])
    /\ UNCHANGED <<conversation, handshake, settings, currentPhase, isWaitingForUserTranscript, bufferedAssistantTranscript,
                   messages, clientOpen, upstream, closePc, commits>>
    /\ Silent

\* message.count resolves; phase progression
CountDone ==
  \E i \in Active :
    /\ Quiescent
    /\ i.pc = "count"
    /\ ProgressSegment(i, UserMessageCount(messages))
    /\ UNCHANGED <<conversation, handshake, settings, salesSessions, messages, clientOpen, upstream, closePc, commits>>

\* the update { currentPhase: 'positioning' | 'closing' } resolves; the gate
PhaseUpdate ==
  \E i \in Active :
    /\ Quiescent
    /\ i.pc = "phase_update"
    /\ salesSessionUpdate(dbSessionId, PhaseData(i.pending))
    /\ GateSegment(i, currentPhase)
    /\ UNCHANGED <<conversation, handshake, settings, currentPhase, messages, clientOpen, upstream, closePc, commits>>

\* user_sells: the update { currentPhase: 'pitching' } resolves; the give-up check
PitchUpdate ==
  \E i \in Active :
    /\ Quiescent
    /\ i.pc = "pitch_update"
    /\ salesSessionUpdate(dbSessionId, PhaseData(i.pending))
    /\ GiveUpSegment(i)
    /\ UNCHANGED <<conversation, handshake, settings, currentPhase, messages, clientOpen, upstream, closePc, commits>>

\* message.findMany resolves; detectSaleOutcome / detectUserSaleOutcome is called
HistoryDone ==
  \E i \in Active :
    /\ Quiescent
    /\ i.pc = "history"
    /\ Suspend(i, [i EXCEPT !.pc = "classify",
                            !.difficulty = IF i.kind = "assistant" THEN difficulty ELSE "none"])
    /\ UNCHANGED <<conversation, handshake, settings, currentPhase, isWaitingForUserTranscript, bufferedAssistantTranscript,
                   salesSessions, messages, clientOpen, upstream, closePc, commits>>
    /\ Silent

\* the classifier call settles and analyzeWithAI / detectUserSaleOutcome returns its result
Classified(r) ==
  \E i \in Active :
    /\ Quiescent
    /\ i.pc = "classify"
    /\ Suspend(i, [i EXCEPT !.pc = "verdict", !.response = r.status, !.analysis = analyzeWithAI(r),
                            !.pendingAtClose = (i.pendingAtClose /\ session.outcome = "abandoned")])
    /\ UNCHANGED <<conversation, handshake, settings, currentPhase, isWaitingForUserTranscript, bufferedAssistantTranscript,
                   salesSessions, messages, clientOpen, upstream, closePc, commits>>
    /\ Silent

\* the handler resumes with the analysis: threshold, then the commit write or nothing
VerdictDone ==
  \E i \in Active :
    /\ i.pc = "verdict"
    /\ LET a == i.analysis
           confident == IF i.kind = "user"
                        THEN a.confidence >= confidenceThreshold(i.isExitSignal)
                        ELSE userSellsConfident(a)
       IN IF confident /\ GateOutcome(a) # "none"
          THEN /\ Suspend(i, Committing(i, GateOutcome(a)))
               /\ UNCHANGED <<isWaitingForUserTranscript, bufferedAssistantTranscript>> /\ Silent
          ELSE IF i.kind = "user"
          THEN FlushAndFinish(i, <<>>)
          ELSE /\ Finish(i)
               /\ UNCHANGED <<isWaitingForUserTranscript, bufferedAssistantTranscript>> /\ Silent
    /\ UNCHANGED <<conversation, handshake, settings, currentPhase, salesSessions, messages, clientOpen, upstream, closePc, commits>>

\* the outcome update resolves; the client is notified
CommitDone ==
  \E i \in Active :
    /\ Quiescent
    /\ i.pc = "commit"
    /\ salesSessionUpdate(dbSessionId, CommitData(i.pending, Date))
    /\ commits' = Count(commits)
    /\ LET note == IF i.pending = "sale_made" THEN <<Event("sale_made", "")>>
                                               ELSE <<Event("sale_denied", "")>>
       IN IF i.kind = "user"
          THEN FlushAndFinish(i, note)
          ELSE /\ Delivered(note)
               /\ Finish(i)
               /\ UNCHANGED <<isWaitingForUserTranscript, bufferedAssistantTranscript>>
    /\ UNCHANGED <<conversation, handshake, settings, currentPhase, messages, clientOpen, upstream, closePc>>

\* an awaited store call of the invocation rejects
StoreFails ==
  \E i \in Active :
    /\ Quiescent
    /\ i.pc \in {"trigger_update", "count", "phase_update", "pitch_update", "history", "commit"}
    /\ Throw(i)

\* ------------------------------------------------------------ client frames
\* the frames a client sends: JSON texts of an audio, a text and an unknown message, and a
\* text that is cut off
ClientFrames == {"{\"type\":\"audio\"}", "{\"type\":\"text\"}", "{\"type\":\"ping\"}", "{\"type\":\"au"}
SyntaxError == [type |-> "SyntaxError"]

\* JSON.parse(data.toString()): the message, or the SyntaxError it throws
JSONparse(frame) ==
  CASE frame = "{\"type\":\"audio\"}" -> [type |-> "audio"]
    [] frame = "{\"type\":\"text\"}" -> [type |-> "text"]
    [] frame = "{\"type\":\"ping\"}" -> [type |-> "ping"]
    [] OTHER -> SyntaxError

\* what the listener sends upstream for a parsed message (only to an open upstream socket)
Forwarded(message) ==
  IF message.type = "audio" /\ upstream = "open"
  THEN <<"input_audio_buffer.append">>
  ELSE IF message.type = "text" /\ upstream = "open"
       THEN <<"conversation.item.create", "response.create">>
       ELSE <<>>

\* clientWs 'message': the frame is parsed and forwarded; the catch block only logs
ClientMessage_ForwardsRaw(frame) ==
  /\ Quiescent
  /\ Listening
  /\ clientOpen
  /\ relayed' = IF JSONparse(frame) = SyntaxError THEN <<"input_audio_buffer.append">>
                 ELSE Forwarded(JSONparse(frame))
  /\ sent' = <<>>
  /\ UNCHANGED <<conversation, handshake, settings, currentPhase, isWaitingForUserTranscript, bufferedAssistantTranscript,
                 salesSessions, messages, clientOpen, upstream, invocations, closePc, commits, notified>>
ClientMessage(frame) ==
  /\ Quiescent
  /\ Listening
  /\ clientOpen
  /\ relayed' = IF JSONparse(frame) = SyntaxError THEN <<>> ELSE Forwarded(JSONparse(frame))
  /\ sent' = <<>>
  /\ UNCHANGED <<conversation, handshake, settings, currentPhase, isWaitingForUserTranscript, bufferedAssistantTranscript,
                 salesSessions, messages, clientOpen, upstream, invocations, closePc, commits, notified>>

\* ------------------------------------------------------------ disconnect
\* the invocations as the disconnect finds them: those awaiting the classifier are marked
MarkPending(i) == IF i.pc = "classify" THEN [i EXCEPT !.pendingAtClose = TRUE] ELSE i
InFlight ==
  [n \in {MarkPending(i) : i \in Active} |-> invocations[CHOOSE i \in Active : MarkPending(i) = n]]

\* the client socket closes. clientWs 'close': openaiWs.close(), then findUnique is awaited;
\* a close that comes before the listener is registered is not seen by any handler
ClientClose ==
  /\ Quiescent
  /\ clientOpen
  /\ closePc = "idle"
  /\ clientOpen' = FALSE
  /\ upstream' = IF upstream = "open" THEN "closing"
                 ELSE IF upstream = "connecting" THEN "closed"
                 ELSE upstream
  /\ closePc' = IF Listening THEN "find" ELSE closePc
  /\ invocations' = InFlight
  /\ UNCHANGED <<conversation, handshake, settings, currentPhase, isWaitingForUserTranscript, bufferedAssistantTranscript,
                 salesSessions, messages, commits>>
  /\ Silent

\* openaiWs 'close': clientWs.close() if the client is open, whose 'close' event starts
\* the handler above
UpstreamClose ==
  /\ Quiescent
  /\ upstream = "open"
  /\ upstream' = "closed"
  /\ clientOpen' = FALSE
  /\ closePc' = IF clientOpen THEN "find" ELSE closePc
  /\ invocations' = InFlight
  /\ UNCHANGED <<conversation, handshake, settings, currentPhase, isWaitingForUserTranscript, bufferedAssistantTranscript,
                 salesSessions, messages, commits>>
  /\ Silent

\* the closing handshake started by openaiWs.close() completes
UpstreamClosed ==
  /\ Quiescent
  /\ upstream = "closing"
  /\ upstream' = "closed"
  /\ UNCHANGED <<conversation, handshake, settings, currentPhase, isWaitingForUserTranscript, bufferedAssistantTranscript,
                 salesSessions, messages, clientOpen, invocations, closePc, commits>>
  /\ Silent

\* findUnique resolves (or rejects: the catch logs)
CloseFind(ok) ==
  /\ Quiescent
  /\ closePc = "find"
  /\ closePc' = IF ok /\ session.endedAt = NULL THEN "update" ELSE "done"
  /\ UNCHANGED <<conversation, handshake, settings, currentPhase, isWaitingForUserTranscript, bufferedAssistantTranscript,
                 salesSessions, messages, clientOpen, upstream, invocations, commits>>
  /\ Silent

\* the update { outcome: 'abandoned', endedAt } resolves (or rejects)
CloseUpdate(ok) ==
  /\ Quiescent
  /\ closePc = "update"
  /\ closePc' = "done"
  /\ IF ok
     THEN salesSessionUpdate(dbSessionId, AbandonData(Date))
     ELSE UNCHANGED salesSessions
  /\ UNCHANGED <<conversation, handshake, settings, currentPhase, isWaitingForUserTranscript, bufferedAssistantTranscript,
                 messages, clientOpen, upstream, invocations, commits>>
  /\ Silent

Next ==
  \/ Initialized
  \/ InitFails
  \/ UpstreamOpen
  \/ SessionCreated
  \/ SessionUpdated
  \/ SpeechStarted
  \/ AudioDelta
  \/ \E f \in Fragments : TranscriptDelta(f)
  \/ UpstreamError("")
  \/ \E u \in Utterances : UserTranscript(u)
  \/ AssistantTranscript
  \/ \E ok \in BOOLEAN : LogDone(ok)
  \/ TriggerUpdate
  \/ CountDone
  \/ PhaseUpdate
  \/ PitchUpdate
  \/ HistoryDone
  \/ \E r \in Responses : Classified(r)
  \/ VerdictDone
  \/ CommitDone
  \/ StoreFails
  \/ ClientClose
  \/ UpstreamClose
  \/ UpstreamClosed
  \/ \E ok \in BOOLEAN : CloseFind(ok)
  \/ \E ok \in BOOLEAN : CloseUpdate(ok)

Spec == Init /\ [][Next]_vars

\* Spec under the scheduling of the runtime: an awaited store call settles, the upstream
\* connection attempt and the closing handshake complete, a grabbed classifier result is
\* consumed. Nothing forces the client, the engine or the classifier to act, nor a store
\* call to succeed.
FairSpec ==
  /\ Spec
  /\ WF_vars(Initialized \/ InitFails)
  /\ WF_vars(UpstreamOpen)
  /\ WF_vars(UpstreamClosed)
  /\ WF_vars(\E ok \in BOOLEAN : CloseFind(ok))
  /\ WF_vars(\E ok \in BOOLEAN : CloseUpdate(ok))
  /\ WF_vars(\E ok \in BOOLEAN : LogDone(ok))
  /\ WF_vars(TriggerUpdate \/ CountDone \/ PhaseUpdate \/ PitchUpdate \/ HistoryDone \/ CommitDone \/ StoreFails)
  /\ WF_vars(VerdictDone)


\* ------------------------------------------------------------ configuration
\* the salesMode and difficulty fields of the body of POST /api/config: absent (""), a
\* value of the list the route accepts, or another text
RequestedModes == {"", "ai_sells", "user_sells", "both"}
RequestedDifficulties == {"", "medium", "hard", "extreme"}
ValidModes == {"ai_sells", "user_sells"}
ValidDifficulties == {"easy", "medium", "hard", "expert"}

\* POST /api/config: the accepted fields are written to the AppConfig row
PostConfig_Live(mode, level) ==
  /\ Quiescent
  /\ appConfig' = [salesMode |-> IF mode \in ValidModes THEN mode ELSE appConfig.salesMode,
                   difficulty |-> IF level \in ValidDifficulties THEN level ELSE appConfig.difficulty]
  /\ salesMode' = appConfig'.salesMode
  /\ difficulty' = appConfig'.difficulty
  /\ UNCHANGED peer
  /\ UNCHANGED <<conversation, handshake, currentPhase, isWaitingForUserTranscript,
                 bufferedAssistantTranscript, salesSessions, messages, clientOpen, upstream, invocations, closePc, commits>>
  /\ Silent
PostConfig(mode, level) ==
  /\ Quiescent
  /\ appConfig' = [salesMode |-> IF mode \in ValidModes THEN mode ELSE appConfig.salesMode,
                   difficulty |-> IF level \in ValidDifficulties THEN level ELSE appConfig.difficulty]
  /\ UNCHANGED <<salesMode, difficulty, peer>>
  /\ UNCHANGED <<conversation, handshake, currentPhase, isWaitingForUserTranscript,
                 bufferedAssistantTranscript, salesSessions, messages, clientOpen, upstream, invocations, closePc, commits>>
  /\ Silent

\* ------------------------------------------------------------ relaying
\* The bridge as a relay between the two sockets, before any user turn: the frames of the
\* client and the error events of the engine with their content.
RelayNext ==
  \/ Initialized
  \/ InitFails
  \/ UpstreamOpen
  \/ SessionCreated
  \/ SessionUpdated
  \/ SpeechStarted
  \/ AudioDelta
  \/ \E f \in Fragments : TranscriptDelta(f)
  \/ \E text \in ErrorTexts : UpstreamError(text)
  \/ \E frame \in ClientFrames : ClientMessage(frame)
  \/ AssistantTranscript
  \/ \E ok \in BOOLEAN : LogDone(ok)
  \/ ClientClose
  \/ UpstreamClose
  \/ UpstreamClosed
  \/ \E ok \in BOOLEAN : CloseFind(ok)
  \/ \E ok \in BOOLEAN : CloseUpdate(ok)

RelaySpec == Init /\ [][RelayNext]_vars

\* ------------------------------------------ a session that is not disconnected
\* The conversation after the handshake, followed over more turns and with more
\* overlapping handlers than Spec: no disconnect, no speech events, no rejected store call.
Connected ==
  /\ salesMode \in {"ai_sells", "user_sells"}
  /\ difficulty = "medium"
  /\ appConfig = [salesMode |-> salesMode, difficulty |-> difficulty]
  /\ currentPhase = "greeting"
  /\ isWaitingForUserTranscript = FALSE
  /\ bufferedAssistantTranscript = <<>>
  /\ session = NewSession
  /\ peerRow = NewSession
  /\ peer = NewPeer
  /\ messages = NoMessages
  /\ clientOpen = TRUE
  /\ upstream = "open"
  /\ sessionReady = TRUE
  /\ engine = "configured"
  /\ greetings = 1
  /\ invocations = EmptyBag
  /\ closePc = "idle"
  /\ commits = 0
  /\ notified = 0
  /\ sent = <<>>
  /\ relayed = <<>>
  /\ conversation = NoConversation

UserTurn(u) == Transcribed(u, MaxTurns, MaxOverlap)
AssistantTurn == Spoken(MaxOverlap)

TurnsNext ==
  \/ \E u \in Utterances : UserTurn(u)
  \/ AssistantTurn
  \/ LogDone(TRUE)
  \/ TriggerUpdate
  \/ CountDone
  \/ PhaseUpdate
  \/ PitchUpdate
  \/ HistoryDone
  \/ \E r \in Responses : Classified(r)
  \/ VerdictDone
  \/ CommitDone

TurnsSpec == Connected /\ [][TurnsNext]_vars

\* A connected session whose configuration row is changed while it converses.
ConfigNext ==
  \/ \E mode \in RequestedModes, level \in RequestedDifficulties : PostConfig(mode, level)
  \/ \E u \in Utterances : Transcribed(u, MaxConfigTurns, MaxConfigOverlap)
  \/ Spoken(MaxConfigOverlap)
  \/ LogDone(TRUE)
  \/ TriggerUpdate
  \/ CountDone
  \/ PhaseUpdate
  \/ PitchUpdate
  \/ HistoryDone
  \/ \E r \in Responses : Classified(r)
  \/ VerdictDone
  \/ CommitDone

ConfigSpec == Connected /\ [][ConfigNext]_vars

\* ------------------------------------------------------------ any classifier answer
\* JSON objects the classification service may answer with besides those of Responses: an
\* outcome outside the three names, a confidence above 100, a negative confidence
ServiceResponses ==
  Responses \cup {[status |-> "json", outcome |-> "MAYBE", confidence |-> 80],
                  [status |-> "json", outcome |-> "SALE_CONFIRMED", confidence |-> 150],
                  [status |-> "json", outcome |-> "SALE_DENIED", confidence |-> -5]}

\* A connected session whose classifier calls are answered with any of them.
VerdictNext ==
  \/ \E u \in Utterances : Transcribed(u, MaxConfigTurns, MaxConfigOverlap)
  \/ Spoken(MaxConfigOverlap)
  \/ LogDone(TRUE)
  \/ TriggerUpdate
  \/ CountDone
  \/ PhaseUpdate
  \/ PitchUpdate
  \/ HistoryDone
  \/ \E r \in ServiceResponses : Classified(r)
  \/ VerdictDone
  \/ CommitDone

VerdictSpec == Connected /\ [][VerdictNext]_vars

\* ------------------------------------------------------------ overlapping speech
\* A connected session in which the user may start to speak again while the handler of
\* the previous utterance is suspended.
OverlapNext ==
  \/ SpeechStarted
  \/ SpeechStartedDuring
  \/ \E f \in Fragments : TranscriptDelta(f)
  \/ \E u \in Utterances : Transcribed(u, MaxConfigTurns, MaxConfigOverlap)
  \/ LogDone(TRUE)
  \/ TriggerUpdate
  \/ CountDone
  \/ PhaseUpdate
  \/ PitchUpdate
  \/ HistoryDone
  \/ \E r \in Responses : Classified(r)
  \/ VerdictDone
  \/ CommitDone

OverlapSpec == Connected /\ [][OverlapNext]_vars

\* ------------------------------------------------------------ ending a session over HTTP
\* POST /api/session/:sessionId/end: the outcome fields of the request bodies (none, two
\* outcomes of the application and another text), and the instant of the request
RequestedOutcomes == {"", "sale_made", "no_sale", "won"}
Later == 2

\* the route finds the row and updates it: endedAt = new Date(), outcome = outcome || 'abandoned'
EndData(outcome, t) == [endedAt |-> t, outcome |-> IF outcome = "" THEN "abandoned" ELSE outcome]
EndSession(outcome) ==
  /\ Quiescent
  /\ salesSessionUpdate(dbSessionId, EndData(outcome, Later))
  /\ UNCHANGED <<conversation, handshake, settings, currentPhase, isWaitingForUserTranscript,
                 bufferedAssistantTranscript, messages, clientOpen, upstream, invocations, closePc, commits>>
  /\ Silent

\* A connected session that is ended by its gate, by the disconnect of the client or by
\* end-session requests.
EndNext ==
  \/ \E o \in RequestedOutcomes : EndSession(o)
  \/ \E u \in Utterances : Transcribed(u, MaxConfigTurns, MaxConfigOverlap)
  \/ LogDone(TRUE)
  \/ TriggerUpdate
  \/ CountDone
  \/ PhaseUpdate
  \/ PitchUpdate
  \/ HistoryDone
  \/ \E r \in Responses : Classified(r)
  \/ VerdictDone
  \/ CommitDone
  \/ ClientClose
  \/ UpstreamClosed
  \/ CloseFind(TRUE)
  \/ CloseUpdate(TRUE)

EndSpec == Connected /\ [][EndNext]_vars

\* ------------------------------------------------------------ two connections
\* The events of another connection, handled by its own call of handleChatConnection (an
\* ai_sells session; each event is taken with the store calls it awaits).
PeerEvents == {"session.updated", "speech_started", "delta", "trigger", "commit"}

PeerEvent(e) ==
  /\ Quiescent
  /\ CASE e = "session.updated" ->
            /\ ~ peer.sessionReady
            /\ peer' = [peer EXCEPT !.sessionReady = TRUE]
            /\ UNCHANGED salesSessions
       [] e = "speech_started" ->
            /\ peer.sessionReady
            /\ peer' = [peer EXCEPT !.isWaitingForUserTranscript = TRUE, !.bufferedAssistantTranscript = <<>>]
            /\ UNCHANGED salesSessions
       [] e = "delta" ->
            /\ peer.isWaitingForUserTranscript
            /\ Len(peer.bufferedAssistantTranscript) < MaxBuf
            /\ peer' = [peer EXCEPT !.bufferedAssistantTranscript = Append(@, Deltas[1])]
            /\ UNCHANGED salesSessions
       [] e = "trigger" ->
            /\ peer.sessionReady
            /\ peerRow.outcome = "undetermined"
            /\ peer' = [peer EXCEPT !.currentPhase = "discovery", !.isWaitingForUserTranscript = FALSE,
                                    !.bufferedAssistantTranscript = <<>>]
            /\ salesSessionUpdate(peerSessionId, PhaseData("discovery"))
       [] e = "commit" ->
            /\ peer.currentPhase = "discovery"
            /\ peerRow.outcome = "undetermined"
            /\ peer' = [peer EXCEPT !.isWaitingForUserTranscript = FALSE, !.bufferedAssistantTranscript = <<>>]
            /\ salesSessionUpdate(peerSessionId, CommitData("sale_made", Date))
  /\ UNCHANGED <<conversation, handshake, salesMode, difficulty, appConfig, currentPhase,
                 isWaitingForUserTranscript, bufferedAssistantTranscript, messages, clientOpen, upstream,
                 invocations, closePc, commits>>
  /\ Silent

PairNext ==
  \/ \E e \in PeerEvents : PeerEvent(e)
  \/ \E u \in Utterances : Transcribed(u, MaxConfigTurns, MaxConfigOverlap)
  \/ Spoken(MaxConfigOverlap)
  \/ SpeechStarted
  \/ TranscriptDelta(Deltas[1])
  \/ LogDone(TRUE)
  \/ TriggerUpdate
  \/ CountDone
  \/ PhaseUpdate
  \/ PitchUpdate
  \/ HistoryDone
  \/ \E r \in Responses : Classified(r)
  \/ VerdictDone
  \/ CommitDone

PairSpec == Connected /\ [][PairNext]_vars

\* ------------------------------------------------- the transcript window alone
\* logMessage adds a row to the session
LogRow ==
  /\ conversation.rows < MaxRows
  /\ conversation' = [conversation EXCEPT !.rows = @ + 1]
  /\ UNCHANGED connection

\* the gate reads the history of the utterance just logged and builds the classifier transcript
BuildWindow ==
  /\ conversation.rows > 0
  /\ conversation' = [conversation EXCEPT !.asked = conversation.rows,
                                          !.window = TranscriptWindow(conversation.rows, salesMode)]
  /\ UNCHANGED connection

WindowNext ==
  \/ LogRow
  \/ BuildWindow

WindowSpec == Init /\ [][WindowNext]_vars

\* ==================================================================== claims
PhaseRank(p) ==
  CASE p = "greeting" -> 0
    [] p \in {"discovery", "pitching"} -> 1
    [] p = "positioning" -> 2
    [] p = "closing" -> 3
    [] p = "completed" -> 4

\* a step of the gate or of an upstream-event handler (not of the clientWs 'close' handler)
HandlerStep == closePc' = closePc

\* the step ends invocation i / takes invocation i to its next await as n
Returned(i) == invocations' = invocations (-) SetToBag({i})
Resumed(i, n) == invocations' = (invocations (-) SetToBag({i})) (+) SetToBag({n})

\* C1: once the stored outcome is terminal (sale_made, no_sale or abandoned), no
\* later step of a handler invocation (no Gate invocation) changes it.
C1_OutcomeWriteOnce ==
  [][(session.outcome \in Terminal /\ HandlerStep) => session'.outcome = session.outcome]_vars

\* C2: when an invocation whose classifier call was pending at the disconnect gets
\* its verdict after the session was finalized as abandoned, its commit step leaves
\* the stored outcome abandoned.
C2_AbandonedNotOverwritten ==
  [][\A i \in Active :
       (i.pendingAtClose /\ session.outcome = "abandoned" /\ i.pc = "commit" /\ Returned(i))
         => session'.outcome = "abandoned"]_vars

\* C3: at most one commit write succeeds and the client receives at most one
\* outcome notification (sale_made or sale_denied).
C3_SingleCommit == commits <= 1 /\ notified <= 1

\* C4: endedAt is non-null if and only if the outcome is not undetermined.
C4_EndedAtIffOutcome == (session.endedAt # NULL) <=> (session.outcome # "undetermined")

\* C4 witness: the session was finalized as abandoned by the close handler.
C4_Witness == closePc = "done" /\ session.outcome = "abandoned" /\ session.endedAt # NULL

\* C5: the phase never regresses under
\* greeting < {discovery, pitching} < positioning < closing < completed,
\* neither the persisted phase nor the phase held by the handler.
C5_PhaseNeverRegresses ==
  [][/\ PhaseRank(session'.currentPhase) >= PhaseRank(session.currentPhase)
     /\ PhaseRank(currentPhase') >= PhaseRank(currentPhase)]_vars

\* C6: once the gate has committed, the persisted phase is completed and stays completed.
C6_CompletedStays ==
  [][(commits > 0 /\ session.currentPhase = "completed") => session'.currentPhase = "completed"]_vars

\* C7: no audio, assistant_transcript or user_transcript event is delivered to the
\* client while the stored outcome is terminal.
C7_NothingSentAfterCommit ==
  session.outcome \in Terminal => \A k \in DOMAIN sent : sent[k].type \notin TranscriptTypes

\* the store outcome the claims expect for an analysis under threshold t
Expected(a, t) ==
  IF a.confidence >= t /\ a.outcome = "SALE_CONFIRMED" THEN "sale_made"
  ELSE IF a.confidence >= t /\ a.outcome = "SALE_DENIED" THEN "no_sale"
  ELSE "none"

ContainsExitPhrase(transcript) == \E p \in exitPhrases : \E q \in transcript : IsSubstring(p, q)

\* the step resumes the invocation i that holds a verdict: it returns when `want` is
\* "none" and awaits the commit write of `want` otherwise
Decides(i, want) ==
  IF want = "none" THEN Returned(i)
  ELSE \E n \in BagToSet(invocations') : n.pc = "commit" /\ n.pending = want /\ Resumed(i, n)

\* C8: in ai_sells mode the gate issues the commit write exactly when the verdict is
\* SALE_CONFIRMED or SALE_DENIED with confidence >= T, T = 60 when the utterance
\* contains an exit phrase and 80 otherwise; it writes sale_made for SALE_CONFIRMED
\* and no_sale for SALE_DENIED, and a successful write stores that outcome.
C8_SellerThreshold ==
  [][\A i \in Active :
       /\ (salesMode = "ai_sells" /\ i.pc \in {"count", "phase_update"})
            => \A n \in BagToSet(invocations') :
                 (n.pc = "history" /\ Resumed(i, n))
                   => (n.isExitSignal <=> ContainsExitPhrase(i.transcript))
       /\ (salesMode = "ai_sells" /\ i.pc = "verdict" /\ invocations' # invocations)
            => Decides(i, Expected(i.analysis, IF i.isExitSignal THEN 60 ELSE 80))
       /\ (salesMode = "ai_sells" /\ i.pc = "commit" /\ Returned(i) /\ session' # session)
            => session'.outcome = i.pending]_vars

\* C8 witness: the gate holds a SALE_DENIED verdict of confidence 70 for an utterance
\* with an exit phrase (it commits no_sale in its next step).
C8_Witness ==
  \E i \in Active :
    /\ salesMode = "ai_sells" /\ i.pc = "verdict" /\ i.isExitSignal
    /\ i.analysis = [outcome |-> "SALE_DENIED", confidence |-> 70]

\* C9: in user_sells mode the verdict on an ASSISTANT utterance is committed exactly
\* when it is SALE_CONFIRMED or SALE_DENIED with confidence >= 80.
C9_CustomerThreshold ==
  [][\A i \in Active :
       /\ (salesMode = "user_sells" /\ i.pc = "verdict" /\ invocations' # invocations)
            => Decides(i, Expected(i.analysis, 80))
       /\ (salesMode = "user_sells" /\ i.pc = "commit" /\ Returned(i) /\ session' # session)
            => session'.outcome = i.pending]_vars

\* C9 witness: the gate holds a SALE_CONFIRMED verdict of confidence exactly 80 for an
\* ASSISTANT utterance (it commits sale_made in its next step).
C9_Witness ==
  \E i \in Active :
    /\ salesMode = "user_sells" /\ i.pc = "verdict" /\ i.kind = "assistant"
    /\ i.analysis = [outcome |-> "SALE_CONFIRMED", confidence |-> 80]

\* the verdict held by invocation i is UNDECIDED or below the applicable threshold
Insufficient(i) ==
  \/ i.analysis.outcome = "UNDECIDED"
  \/ i.analysis.confidence <
       (IF salesMode = "ai_sells" /\ i.isExitSignal THEN 60 ELSE 80)

\* C10: a gate invocation whose verdict is UNDECIDED or below the threshold leaves
\* outcome, endedAt and phase unchanged, sends no sale_made / sale_denied and issues
\* no write.
C10_InsufficientVerdictNoChange ==
  [][\A i \in Active :
       (i.pc = "verdict" /\ invocations' # invocations /\ Insufficient(i))
         => /\ Returned(i)
            /\ UNCHANGED <<session, currentPhase, notified, commits>>]_vars

\* C10 witness: an UNDECIDED verdict of confidence 80 has reached the gate of a
\* session without outcome.
C10_Witness ==
  \E i \in Active :
    /\ i.pc = "verdict" /\ i.analysis = [outcome |-> "UNDECIDED", confidence |-> 80]
    /\ session.outcome = "undetermined"

\* C11: when the classifier call fails or its answer cannot be parsed, the classifier
\* client returns UNDECIDED with confidence 0; the gate that resumes on this result
\* commits nothing, changes nothing and sends no error event to the client.
C11_ClassifierFailureIsUndecided ==
  [][\A i \in Active :
       (i.pc = "verdict" /\ i.response \in {"rejected", "unparseable"} /\ invocations' # invocations)
         => /\ i.analysis = [outcome |-> "UNDECIDED", confidence |-> 0]
            /\ Returned(i)
            /\ UNCHANGED <<session, commits, notified>>
            /\ \A k \in DOMAIN sent' : sent'[k].type # "error"]_vars

\* C11 witness: the gate of a live session is about to resume on the result of a
\* classifier call that was rejected.
C11_Witness ==
  \E i \in Active : i.pc = "verdict" /\ i.response = "rejected" /\ clientOpen

\* C12: in ai_sells mode, while the phase (after the phase update for the utterance)
\* is greeting, the gate does not start detection for a USER utterance, whatever
\* phrases the utterance contains.
C12_NoDetectionInGreeting ==
  [][\A i \in Active :
       (salesMode = "ai_sells" /\ i.kind = "user" /\ i.pc \in {"count", "phase_update"}
          /\ currentPhase' = "greeting")
         => ~ \E n \in BagToSet(invocations') : n.pc = "history" /\ Resumed(i, n)]_vars

\* C13: in ai_sells mode, a USER utterance with neither an exit nor a buy phrase, handled
\* while the phase has not reached closing, does not start detection.
C13_NoDetectionWithoutSignal ==
  [][\A i \in Active :
       (salesMode = "ai_sells" /\ i.kind = "user" /\ i.pc \in {"count", "phase_update"}
          /\ ~ ContainsExitPhrase(i.transcript)
          /\ ~ (\E p \in buyPhrases : \E q \in i.transcript : IsSubstring(p, q))
          /\ currentPhase' # "closing")
         => ~ \E n \in BagToSet(invocations') : n.pc = "history" /\ Resumed(i, n)]_vars

\* C14: the transcript handed to the classifier is made of the most recent messages
\* in chronological order (at most the last SellerWindow / CustomerWindow of them), so
\* for a session of any length it contains the utterance that triggered the gate.
C14_WindowHoldsLatest ==
  conversation.asked > 0 =>
    LET w == conversation.window
        size == IF salesMode = "ai_sells" THEN SellerWindow ELSE CustomerWindow
    IN /\ Len(w) > 0
       /\ w[Len(w)] = conversation.asked
       /\ \A k \in 1..Len(w) : w[k] = conversation.asked - Len(w) + k
       /\ Len(w) = (IF conversation.asked < size THEN conversation.asked ELSE size)

\* f1 followed by f2 ... followed by fn
RECURSIVE Concatenation(_)
Concatenation(fs) ==
  IF Len(fs) = 0 THEN "" ELSE Concatenation(SubSeq(fs, 1, Len(fs) - 1)) \o fs[Len(fs)]

\* the assistant_transcript events among the events evs
AssistantTexts(evs) == SelectSeq(evs, LAMBDA e : e.type = "assistant_transcript")

\* C15: when the handling of a finalized human utterance ends without failure and the
\* client is open, the fragments f1..fn buffered since the speech-start reach the client
\* as exactly one assistant_transcript event whose text is f1..fn concatenated in arrival
\* order.
C15_BufferedFlushedOnce ==
  [][\A i \in Active :
       (i.kind = "user" /\ Returned(i) /\ ~ StoreFails /\ clientOpen
          /\ Len(bufferedAssistantTranscript) > 0)
         => /\ Len(AssistantTexts(sent')) = 1
            /\ AssistantTexts(sent')[1].text = Concatenation(bufferedAssistantTranscript)
            /\ \A k \in DOMAIN bufferedAssistantTranscript :
                 bufferedAssistantTranscript[k] = Deltas[k]]_vars

\* C15 witness: the client has just received the two buffered fragments as one event.
C15_Witness ==
  \E k \in DOMAIN sent : sent[k] = [type |-> "assistant_transcript", text |-> "AB"]

\* C16: a fragment that arrives while the window is open is appended to the buffer and
\* not sent; one that arrives while no window is open is forwarded at once as its own
\* assistant_transcript event and not buffered.
C16_BufferedOrForwarded ==
  [][\A f \in Fragments :
       TranscriptDelta(f)
         => IF isWaitingForUserTranscript
            THEN /\ bufferedAssistantTranscript' = bufferedAssistantTranscript \o <<f>>
                 /\ sent' = <<>>
            ELSE /\ bufferedAssistantTranscript' = bufferedAssistantTranscript
                 /\ clientOpen => sent' = <<[type |-> "assistant_transcript", text |-> f]>>]_vars

\* C16 witness: with the client connected, a second fragment has been buffered in the
\* open window and nothing was sent.
C16_Witness ==
  clientOpen /\ isWaitingForUserTranscript /\ Len(bufferedAssistantTranscript) = 2 /\ sent = <<>>

\* C17: when the handling of a finalized human utterance ends (normally, on a failure,
\* or because the client socket is no longer open) the window is closed and the buffer
\* is empty.
C17_WindowClosedAtEnd ==
  [][/\ \A i \in Active :
          (i.kind = "user" /\ Returned(i))
            => (~ isWaitingForUserTranscript' /\ bufferedAssistantTranscript' = <<>>)
     /\ ((\E u \in Utterances : UserTranscript(u)) /\ ~ clientOpen)
          => (~ isWaitingForUserTranscript' /\ bufferedAssistantTranscript' = <<>>)]_vars

\* C18: a speech-start that arrives while a window is open discards the fragments
\* buffered so far without delivering them; whatever assistant text is delivered later
\* is made of the fragments held at that time only.
C18_SpeechStartDiscards ==
  [][/\ SpeechStarted
          => (isWaitingForUserTranscript' /\ bufferedAssistantTranscript' = <<>> /\ sent' = <<>>)
     /\ \A k \in DOMAIN sent' :
          (sent'[k].type = "assistant_transcript" /\ isWaitingForUserTranscript)
            => sent'[k].text = Concatenation(bufferedAssistantTranscript)]_vars

\* C18 witness: a window is open with buffered fragments and the upstream can still
\* deliver a speech-start.
C18_Witness ==
  isWaitingForUserTranscript /\ Len(bufferedAssistantTranscript) > 0 /\ Delivering /\ clientOpen

\* C19: the greeting is requested from the upstream at most once per connection, however
\* many session.created / session.updated events arrive and in whatever order.
C19_GreetingAtMostOnce == greetings <= 1

\* C19 witness: after the greeting was requested and logged, a further session event was
\* handled (ready sent again) without starting a second greeting.
C19_Witness ==
  /\ greetings = 1 /\ sessionReady /\ upstream = "open"
  /\ invocations = EmptyBag
  /\ sent = <<[type |-> "ready", text |-> ""]>>

\* C20: the greeting is requested only once the upstream has confirmed (session.updated)
\* that the configuration sent by the bridge is applied.
C20_GreetingAfterConfiguration ==
  [][greetings' # greetings => engine' = "configured"]_vars

\* C21: in ai_sells mode the phase, the one held by the handler and the stored one,
\* leaves greeting only through a USER utterance that contains the trigger phrase;
\* without it the phase stays greeting.
C21_GreetingLeftOnlyByTrigger ==
  [][salesMode = "ai_sells" =>
       /\ (currentPhase = "greeting" /\ currentPhase' # "greeting")
            => \E i \in Active :
                 /\ i.kind = "user" /\ i.pc = "log"
                 /\ \E q \in i.transcript : IsSubstring(triggerPhrase, q)
                 /\ invocations' # invocations
       /\ (session.currentPhase = "greeting" /\ session'.currentPhase # "greeting")
            => \E i \in Active :
                 /\ i.kind = "user" /\ i.pc = "trigger_update"
                 /\ \E q \in i.transcript : IsSubstring(triggerPhrase, q)
                 /\ invocations' # invocations]_vars

\* the phase the claims expect for a count of USER messages once the trigger was spoken
PhaseForCount(n) == IF n < 3 THEN "discovery" ELSE IF n < 5 THEN "positioning" ELSE "closing"

\* C22: in ai_sells mode, once a USER utterance is processed with the trigger phrase
\* already spoken and no outcome committed, the phase is discovery below 3 USER
\* messages, positioning at 3 or 4 and closing at 5 or more, whichever utterance
\* carried the trigger phrase.
C22_PhaseFollowsCount ==
  (/\ salesMode = "ai_sells"
   /\ invocations = EmptyBag
   /\ currentPhase # "greeting"
   /\ session.outcome = "undetermined")
    => currentPhase = PhaseForCount(messages)

\* C23: in user_sells mode the first USER utterance moves the phase from greeting to
\* pitching whatever it contains, and afterwards the phase (held by the handler or
\* stored) changes only to completed, on a commit.
C23_PitchingThenCompleted ==
  [][salesMode = "user_sells" =>
       /\ (Logging' < Logging /\ currentPhase = "greeting") => currentPhase' = "pitching"
       /\ currentPhase' # currentPhase
            => (currentPhase = "greeting" /\ currentPhase' = "pitching" /\ Logging' < Logging)
       /\ session'.currentPhase # session.currentPhase
            => \/ session.currentPhase = "greeting" /\ session'.currentPhase = "pitching"
               \/ session'.currentPhase = "completed" /\ session'.outcome \in {"sale_made", "no_sale"}]_vars

\* C24: an ASSISTANT utterance starts detection exactly when the mode is user_sells and
\* the phase is past greeting; in ai_sells mode the handling of an ASSISTANT utterance
\* never reaches the classifier or a commit.
C24_DetectionOnAssistant ==
  [][/\ \A i \in Active :
          (i.kind = "assistant" /\ i.pc = "log"
             /\ (Returned(i) \/ \E n \in BagToSet(invocations') : n # i /\ Resumed(i, n)))
            => ((\E n \in BagToSet(invocations') : n.pc = "history" /\ Resumed(i, n))
                  <=> (salesMode = "user_sells" /\ currentPhase # "greeting"))
     /\ \A n \in BagToSet(invocations') :
          (salesMode = "ai_sells" /\ n.kind = "assistant") => n.pc = "log"]_vars

\* C24 witness: in user_sells mode the classifier is being called for an ASSISTANT utterance.
C24_Witness ==
  \E i \in Active : i.kind = "assistant" /\ i.pc = "classify" /\ salesMode = "user_sells"

\* the awaits at which an invocation waits for a phase write
PhaseWrites == {"trigger_update", "phase_update", "pitch_update"}

\* C25: within the handling of one utterance, every phase transition it causes is
\* written to the store before the classifier call for that utterance is issued: the
\* handler that changes the phase awaits the write of that phase, goes on only once the
\* store holds it, and reaches the classifier call only from the history query.
C25_PhaseWrittenBeforeClassifier ==
  [][\A i \in Active :
       /\ (currentPhase' # currentPhase /\ \E n \in BagToSet(invocations') : n # i /\ Resumed(i, n))
            => \E n \in BagToSet(invocations') :
                 n.pc \in PhaseWrites /\ n.pending = currentPhase' /\ Resumed(i, n)
       /\ (i.pc \in PhaseWrites /\ \E n \in BagToSet(invocations') : n # i /\ Resumed(i, n))
            => session'.currentPhase = i.pending
       /\ \A n \in BagToSet(invocations') :
            (n.pc = "classify" /\ i.pc # "classify" /\ Resumed(i, n)) => i.pc = "history"]_vars

\* C25 witness: the classifier is being called for a USER utterance that moved the
\* phase to positioning, and the store holds positioning.
C25_Witness ==
  \E i \in Active :
    /\ i.kind = "user" /\ i.pc = "classify" /\ salesMode = "ai_sells"
    /\ currentPhase = "positioning" /\ session.currentPhase = "positioning"

ContainsGiveUpPhrase(transcript) ==
  \E p \in giveUpPhrases : \E q \in transcript : IsSubstring(p, q)

\* C26: in user_sells mode a USER utterance with a give-up phrase, handled while the
\* stored phase is not completed, goes to the commit of no_sale without any classifier
\* call (only the pending write of the pitching phase comes first), and when that
\* commit write succeeds the outcome is no_sale and the client is sent sale_denied.
C26_GiveUpCommitsNoSale ==
  [][\A i \in Active :
       /\ (salesMode = "user_sells" /\ i.kind = "user" /\ i.pc \in {"log", "pitch_update"}
             /\ session.currentPhase # "completed" /\ ContainsGiveUpPhrase(i.transcript))
            => /\ \A n \in BagToSet(invocations') :
                    (n # i /\ Resumed(i, n))
                      => \/ n.pc = "pitch_update" /\ i.pc = "log"
                         \/ n.pc = "commit" /\ n.pending = "no_sale"
               /\ Returned(i) => i.pc = "pitch_update"
       /\ (salesMode = "user_sells" /\ i.kind = "user" /\ i.pc = "commit"
             /\ Returned(i) /\ ~ StoreFails)
            => /\ session'.outcome = "no_sale"
               /\ clientOpen => \E k \in DOMAIN sent' : sent'[k].type = "sale_denied"]_vars

\* C26 witness: the commit of no_sale for a give-up utterance is pending in a session
\* whose client is connected and whose stored phase is pitching.
C26_Witness ==
  \E i \in Active :
    /\ salesMode = "user_sells" /\ i.kind = "user" /\ i.pc = "commit" /\ i.pending = "no_sale"
    /\ clientOpen /\ session.currentPhase = "pitching"

\* C29: when the commit write of an invocation fails, that invocation sends the client
\* neither sale_made nor sale_denied, the stored session is left as it was, and both
\* connections and the event delivery stay as they were, so later events are processed.
C29_FailedCommitIsSilent ==
  [][\A i \in Active :
       (i.pc = "commit" /\ Returned(i) /\ StoreFails)
         => /\ \A k \in DOMAIN sent' : sent'[k].type \notin Notifications
            /\ notified' = notified
            /\ session' = session
            /\ clientOpen' = clientOpen /\ upstream' = upstream /\ closePc' = closePc
            /\ Delivering => Delivering']_vars

\* C29 witness: a commit write is awaited while the client and the upstream are
\* connected and upstream events are delivered.
C29_Witness ==
  \E i \in Active : i.pc = "commit" /\ clientOpen /\ upstream = "open" /\ Delivering

\* C28: what an upstream error event makes the client receive does not depend on the
\* error text it carries: from one state, the error event with any other text hands the
\* client the same events.
C28_ErrorContentIndependent ==
  [][\A text \in ErrorTexts :
       UpstreamError(text)
         => \A other \in ErrorTexts : sent' = <<Event("error", errorMessage(other))>>]_vars

\* C27: whenever the client connection is closed while the stored outcome is
\* undetermined, at any point after the session record was created, the session
\* eventually has the outcome abandoned and the upstream connection is closed (or was
\* never made).
C27_ClosedClientIsAbandoned ==
  [](( ~ clientOpen /\ session.outcome = "undetermined")
       => <>(session.outcome = "abandoned" /\ upstream \in {"closed", "failed"}))

\* C30: a client frame that cannot be parsed changes no state of the session (phase,
\* buffer, window, stored session, handlers), sends nothing upstream and nothing to the
\* client, and leaves both connections as they are; a frame that parses is forwarded by
\* its type alone, whatever frames came before it.
C30_MalformedFrameIgnored ==
  [][\A frame \in ClientFrames :
       ClientMessage(frame)
         => /\ JSONparse(frame) = SyntaxError
                 => /\ relayed' = <<>> /\ sent' = <<>>
                    /\ clientOpen' /\ upstream' = upstream /\ closePc' = closePc
                    /\ UNCHANGED <<currentPhase, bufferedAssistantTranscript, isWaitingForUserTranscript,
                                   session, messages, invocations, handshake>>
            /\ (JSONparse(frame).type = "audio" /\ upstream = "open")
                 => relayed' = <<"input_audio_buffer.append">>
            /\ (JSONparse(frame).type = "text" /\ upstream = "open")
                 => relayed' = <<"conversation.item.create", "response.create">>]_vars

\* C30 witness: the state a cut-off frame leaves when it arrives with both connections
\* open, the window open and a fragment buffered: nothing was sent to either side.
C30_Witness ==
  /\ clientOpen /\ upstream = "open" /\ closePc = "idle"
  /\ isWaitingForUserTranscript /\ bufferedAssistantTranscript # <<>>
  /\ relayed = <<>> /\ sent = <<>>
  /\ ENABLED ClientMessage("{\"type\":\"au")

\* C31: after a commit of sale_made or no_sale by the gate the upstream connection is
\* eventually closed (or closing), whether or not the client disconnects.
C31_CommitClosesUpstream ==
  [](commits > 0 => <>(upstream \in {"closing", "closed"}))

\* the step starts the invocation n
Started(n) == invocations' = invocations (+) SetToBag({n})

\* C32: the phase handed to logMessage for a finalized utterance, which is the phase
\* stored with its Message, is the phase the store holds for the session when the
\* finalizing event is received, also after a commit.
C32_MessagePhaseIsStoredPhase ==
  [][\A n \in BagToSet(invocations') :
       (n.pc = "log" /\ Started(n)) => LoggedPhase(n.kind) = session.currentPhase]_vars

\* C33: a logMessage call is issued only when a finalized transcript event (USER or
\* ASSISTANT) is received, and every such event issues exactly one.
C33_OneMessagePerTranscript ==
  [][/\ (\E u \in Utterances : UserTranscript(u))
          => \E n \in BagToSet(invocations') : n.pc = "log" /\ n.kind = "user" /\ Started(n)
     /\ AssistantTranscript
          => \E n \in BagToSet(invocations') : n.pc = "log" /\ n.kind = "assistant" /\ Started(n)
     /\ (\E n \in BagToSet(invocations') : n.pc = "log" /\ Started(n))
          => ((\E u \in Utterances : UserTranscript(u)) \/ AssistantTranscript)]_vars

\* C34: a change of the configured mode or difficulty leaves the mode and the difficulty
\* of the running session as they were read at the connection; whatever the
\* configuration row holds, the phase moves by the rule of the session's mode, the gate
\* applies the thresholds of the session's mode and the customer classifier is passed
\* the session's difficulty.
C34_ModeFixedAtConnection ==
  [][/\ UNCHANGED <<salesMode, difficulty>>
     /\ currentPhase' # currentPhase
          => IF salesMode = "ai_sells"
             THEN currentPhase' \in {"discovery", "positioning", "closing"}
             ELSE currentPhase' = "pitching"
     /\ \A i \in Active :
          /\ (i.pc = "verdict" /\ invocations' # invocations)
               => Decides(i, Expected(i.analysis,
                                      IF salesMode = "ai_sells" /\ i.isExitSignal THEN 60 ELSE 80))
          /\ \A n \in BagToSet(invocations') :
               (n.pc = "classify" /\ i.pc = "history" /\ Resumed(i, n))
                 => n.difficulty = (IF i.kind = "assistant" THEN difficulty ELSE "none")]_vars

\* C34 witness: the customer classifier is being called with the difficulty medium in a
\* user_sells session after the configuration was changed to ai_sells and hard.
C34_Witness ==
  \E i \in Active :
    /\ i.pc = "classify" /\ i.kind = "assistant" /\ i.difficulty = "medium"
    /\ salesMode = "user_sells" /\ difficulty = "medium"
    /\ appConfig = [salesMode |-> "ai_sells", difficulty |-> "hard"]

\* C35: with two connections, an event of one changes neither the phase, the transcript
\* buffer, the buffering window, the greeted flag nor the stored session of the other.
C35_SessionsIsolated ==
  [][IF \E e \in PeerEvents : PeerEvent(e)
     THEN UNCHANGED <<currentPhase, bufferedAssistantTranscript, isWaitingForUserTranscript,
                      sessionReady, session>>
     ELSE UNCHANGED <<peer, peerRow>>]_vars

\* C35 witness: both sessions have moved on, each its own way: this one committed no_sale
\* from pitching while the other is in discovery, undecided, with a fragment buffered.
C35_Witness ==
  /\ currentPhase = "pitching" /\ session.outcome = "no_sale"
  /\ peer.currentPhase = "discovery" /\ peerRow.currentPhase = "discovery"
  /\ peerRow.outcome = "undetermined"
  /\ peer.isWaitingForUserTranscript /\ peer.bufferedAssistantTranscript # <<>>
  /\ ~ isWaitingForUserTranscript

\* C36: whatever JSON object the classification service answers with, the verdict the
\* classifier client returns has an outcome among SALE_CONFIRMED, SALE_DENIED and
\* UNDECIDED and a confidence in 0..100.
C36_VerdictInRange ==
  \A i \in Active :
    i.pc = "verdict" => (i.analysis.outcome \in SaleOutcomes /\ i.analysis.confidence \in 0..100)

\* C37: when a speech start arrived while the handler of the previous USER utterance
\* was suspended, that handler, on completing, leaves the new buffering window open and
\* forwards no assistant transcript.
C37_LateHandlerKeepsWindow ==
  [][\A i \in Active :
       (i.overtaken /\ isWaitingForUserTranscript /\ BagCardinality(invocations) = 1 /\ Returned(i))
         => /\ isWaitingForUserTranscript'
            /\ \A k \in DOMAIN sent' : sent'[k].type # "assistant_transcript"]_vars

\* C38: once sale_made or no_sale is stored, the gate does nothing: no step hands an
\* invocation to the classifier, none performs the commit write, none notifies the client
\* of an outcome.
C38_GateIsNoOpAfterCommit ==
  [][session.outcome \in {"sale_made", "no_sale"}
       => /\ \A k \in DOMAIN sent' : sent'[k].type \notin {"sale_made", "sale_denied"}
          /\ \A i \in Active :
               /\ (i.pc = "commit" /\ Returned(i)) => session' = session
               /\ i.pc = "history" => \A n \in BagToSet(invocations') : n.pc = "classify" => ~ Resumed(i, n)]_vars

\* C39: the client is sent ready only by the first acknowledgement of the engine, so at
\* most once, and no audio or assistant transcript reaches it before that acknowledgement.
C39_ReadyOnceAndFirst ==
  [][/\ (\E k \in DOMAIN sent' : sent'[k].type = "ready") => engine = "new"
     /\ (\E k \in DOMAIN sent' : sent'[k].type \in {"audio", "assistant_transcript"}) => engine # "new"]_vars

\* C40: the stored outcome is always unset, sale_made, no_sale or abandoned, and an
\* end-session request on a session whose outcome is terminal changes neither outcome nor
\* endedAt.
C40_EndSessionKeepsOutcome ==
  [][/\ session'.outcome \in {"undetermined"} \cup Terminal
     /\ (session.outcome \in Terminal /\ \E o \in RequestedOutcomes : EndSession(o))
          => (session'.outcome = session.outcome /\ session'.endedAt = session.endedAt)]_vars

====
